---------------------------- MODULE Spec2Model ----------------------------
(***************************************************************************)
(* Column rendering and comparison (internal/tengo/column.go) and the      *)
(* integration-test helpers (internal/tengo/testing.go) of skeema.         *)
(*                                                                         *)
(* Go strings are modelled as sequences of one-character strings, so that  *)
(* joining, cutting, trimming, case folding and escaping are computed and  *)
(* not assumed.  The empty Go string is the empty sequence.                *)
(***************************************************************************)
EXTENDS Integers, Sequences, FiniteSets, TLC

VARIABLES
    col, flavor, clauses, definition, dpc,          \* Column.Definition
    colA, colB, equalsAB, equalsBA, equivAB, equivBA, cpc, \* Equals / Equivalent
    strA, strB, csEquiv, collEquiv, spc,            \* charsets/collationsEquivalent
    backends, methods, bi, mi, rpc, calls,          \* RunSuite
    envAction, containerName, dcalls, cleanupRet, kpc      \* SkeemaTestContainerCleanup

vars == <<col, flavor, clauses, definition, dpc,
          colA, colB, equalsAB, equalsBA, equivAB, equivBA, cpc,
          strA, strB, csEquiv, collEquiv, spc,
          backends, methods, bi, mi, rpc, calls,
          envAction, containerName, dcalls, cleanupRet, kpc>>

defVars == <<col, flavor, clauses, definition, dpc>>
cmpVars == <<colA, colB, equalsAB, equalsBA, equivAB, equivBA, cpc>>
strVars == <<strA, strB, csEquiv, collEquiv, spc>>
runVars == <<backends, methods, bi, mi, rpc, calls>>
clnVars == <<envAction, containerName, dcalls, cleanupRet, kpc>>

\* Bounds of the model.
MaxAttrs == 4
MaxDiff == 2
MaxBackends == 2
MaxPad == 1

\* The character U+0060, which a TLA+ string cannot hold.
Backtick == "U+0060"

---------------------------------------------------------------------------
(* Go standard library string functions used by the two files.             *)

RECURSIVE Join(_, _)
Join(elems, sep) ==
    IF Len(elems) = 0 THEN <<>>
    ELSE IF Len(elems) = 1 THEN elems[1]
    ELSE elems[1] \o sep \o Join(Tail(elems), sep)

HasPrefix(s, prefix) ==
    Len(s) >= Len(prefix) /\ SubSeq(s, 1, Len(prefix)) = prefix

\* Index of the first occurrence of the one-character separator, 0 if none.
RECURSIVE IndexFrom(_, _, _)
IndexFrom(s, ch, i) ==
    IF i > Len(s) THEN 0
    ELSE IF s[i] = ch THEN i
    ELSE IndexFrom(s, ch, i + 1)

\* strings.Cut(s, sep): <<before, after, found>>.
Cut(s, ch) ==
    LET i == IndexFrom(s, ch, 1) IN
    IF i = 0 THEN <<s, <<>>, FALSE>>
    ELSE <<SubSeq(s, 1, i - 1), SubSeq(s, i + 1, Len(s)), TRUE>>

IsSpace(ch) == ch \in {" ", "\t", "\n"}

RECURSIVE TrimLeft(_)
TrimLeft(s) ==
    IF Len(s) > 0 /\ IsSpace(s[1]) THEN TrimLeft(Tail(s)) ELSE s

RECURSIVE TrimRight(_)
TrimRight(s) ==
    IF Len(s) > 0 /\ IsSpace(s[Len(s)]) THEN TrimRight(SubSeq(s, 1, Len(s) - 1)) ELSE s

TrimSpace(s) == TrimRight(TrimLeft(s))

Upper == <<"A","B","C","D","E","F","G","H","I","J","K","L","M","N","O","P","Q","R","S","T","U","V","W","X","Y","Z">>
Lower == <<"a","b","c","d","e","f","g","h","i","j","k","l","m","n","o","p","q","r","s","t","u","v","w","x","y","z">>

\* Simple case folding of one character (ASCII letters).
Fold(ch) ==
    IF \E i \in 1..Len(Upper) : Upper[i] = ch
    THEN Lower[CHOOSE i \in 1..Len(Upper) : Upper[i] = ch]
    ELSE ch

EqualFold(s, t) ==
    Len(s) = Len(t) /\ \A i \in 1..Len(s) : Fold(s[i]) = Fold(t[i])

Digits == <<"0","1","2","3","4","5","6","7","8","9">>

\* fmt.Sprintf("%d", n) for an unsigned n.
RECURSIVE FormatUint(_)
FormatUint(n) ==
    IF n < 10 THEN <<Digits[n + 1]>>
    ELSE FormatUint(n \div 10) \o <<Digits[(n % 10) + 1]>>

\* Every occurrence of the character ch in s doubled.
RECURSIVE DoubleChar(_, _)
DoubleChar(s, ch) ==
    IF Len(s) = 0 THEN <<>>
    ELSE (IF s[1] = ch THEN <<ch, ch>> ELSE <<s[1]>>) \o DoubleChar(Tail(s), ch)

---------------------------------------------------------------------------
(* Collaborators of column.go: Flavor, ColumnType and the escaping helpers. *)

FlavorIsVendor(fl, tag) == fl.Vendor = tag

FlavorAtLeast(fl, tag, major, minor) ==
    /\ fl.Vendor = tag
    /\ \/ fl.Major > major
       \/ fl.Major = major /\ fl.Minor >= minor

IsMySQL(fl) == FlavorIsVendor(fl, "mysql")
IsPercona(fl) == FlavorIsVendor(fl, "percona")
IsMariaDB(fl) == FlavorIsVendor(fl, "mariadb")
MinMySQL(fl, major) == FlavorAtLeast(fl, "mysql", major, 0)
MinMariaDB(fl, major, minor) == FlavorAtLeast(fl, "mariadb", major, minor)

compressedColumnOpenComment(fl) ==
    IF IsMariaDB(fl) THEN <<"/","*","!","1","0","0","3","0","1"," ","C","O","M","P","R","E","S","S","E","D","=">> ELSE <<"/","*","!","5","0","6","3","3"," ">>

EscapeIdentifier(name) == <<Backtick>> \o DoubleChar(name, Backtick) \o <<Backtick>>

EscapeValueForCreateTable(s) == DoubleChar(s, "'")

IntegerBases == {<<"i","n","t">>, <<"b","i","g","i","n","t">>}

\* ColumnType.String()
TypeString(ty) ==
    ty.Base
    \o (IF ty.Size > 0 THEN <<"(">> \o FormatUint(ty.Size) \o <<")">> ELSE <<>>)
    \o (IF ty.Unsigned THEN <<" ","u","n","s","i","g","n","e","d">> ELSE <<>>)

\* ColumnType.Equivalent(other)
TypeEquivalent(ty, other) ==
    \/ ty = other
    \/ /\ ty.Base = other.Base
       /\ ty.Base \in IntegerBases
       /\ ty.Unsigned = other.Unsigned
       /\ (ty.Size = 0) # (other.Size = 0)

---------------------------------------------------------------------------
(* Column.Definition (column.go), clause by clause.  Each operator is the  *)
(* sequence of clauses (none or one) its block appends.                    *)

NameClause(c) == <<EscapeIdentifier(c.Name)>>

TypeClause(c, fl) ==
    IF c.Compression # <<>> /\ IsMariaDB(fl)
    THEN <<TypeString(c.Type) \o <<" ">> \o compressedColumnOpenComment(fl)
           \o c.Compression \o <<"*","/">>>>
    ELSE <<TypeString(c.Type)>>

CharSetClause(c) ==
    IF c.CharSet # <<>> /\ c.ShowCharSet
    THEN <<<<"C","H","A","R","A","C","T","E","R"," ","S","E","T"," ">> \o c.CharSet>> ELSE <<>>

CollationClause(c) ==
    IF c.Collation # <<>> /\ c.ShowCollation
    THEN <<<<"C","O","L","L","A","T","E"," ">> \o c.Collation>> ELSE <<>>

GenerationClause(c) ==
    IF c.GenerationExpr # <<>>
    THEN LET genKind == IF c.Virtual THEN <<"V","I","R","T","U","A","L">> ELSE <<"S","T","O","R","E","D">>
         IN <<<<"G","E","N","E","R","A","T","E","D"," ","A","L","W","A","Y","S"," ","A","S"," ","(">> \o c.GenerationExpr \o <<")"," ">> \o genKind>>
    ELSE <<>>

\* The nullability block with NULL rendered for a nullable column of any type.
NullabilityClauseAnyType(c) ==
    IF ~c.Nullable THEN <<<<"N","O","T"," ","N","U","L","L">>>> ELSE <<<<"N","U","L","L">>>>

\* if !c.Nullable ... else if c.Type.Base == "timestamp".
NullabilityClause(c) ==
    IF ~c.Nullable THEN <<<<"N","O","T"," ","N","U","L","L">>>>
    ELSE IF c.Type.Base = <<"t","i","m","e","s","t","a","m","p">> THEN <<<<"N","U","L","L">>>>
    ELSE <<>>

\* The SRID block with a non-zero SRID taken as presence.
SRIDClauseByValue(c, fl) ==
    IF (c.HasSpatialReference \/ c.SpatialReferenceID # 0) /\ MinMySQL(fl, 8)
    THEN <<<<"/","*","!","8","0","0","0","3"," ","S","R","I","D"," ">> \o FormatUint(c.SpatialReferenceID) \o <<" ","*","/">>>>
    ELSE <<>>

\* if c.HasSpatialReference && flavor.MinMySQL(8).
SRIDClause(c, fl) ==
    IF c.HasSpatialReference /\ MinMySQL(fl, 8)
    THEN <<<<"/","*","!","8","0","0","0","3"," ","S","R","I","D"," ">> \o FormatUint(c.SpatialReferenceID) \o <<" ","*","/">>>>
    ELSE <<>>

\* The early invisibility block without the upper version limit.
EarlyInvisibleClauseNoWindow(c, fl) ==
    IF c.Invisible /\ IsMariaDB(fl) THEN <<<<"I","N","V","I","S","I","B","L","E">>>> ELSE <<>>

\* if c.Invisible && flavor.IsMariaDB() && !flavor.MinMariaDB(11, 7).
EarlyInvisibleClause(c, fl) ==
    IF c.Invisible /\ IsMariaDB(fl) /\ ~MinMariaDB(fl, 11, 7)
    THEN <<<<"I","N","V","I","S","I","B","L","E">>>> ELSE <<>>

PerconaCompressionClause(c, fl) ==
    IF c.Compression # <<>> /\ IsPercona(fl)
    THEN <<compressedColumnOpenComment(fl) \o <<"C","O","L","U","M","N","_","F","O","R","M","A","T"," ">>
           \o c.Compression \o <<" ","*","/">>>>
    ELSE <<>>

DefaultClause(c) ==
    IF c.Default # <<>> THEN <<<<"D","E","F","A","U","L","T"," ">> \o c.Default>> ELSE <<>>

OnUpdateClause(c) ==
    IF c.OnUpdate # <<>> THEN <<<<"O","N"," ","U","P","D","A","T","E"," ">> \o c.OnUpdate>> ELSE <<>>

AutoIncrementClause(c) ==
    IF c.AutoIncrement THEN <<<<"A","U","T","O","_","I","N","C","R","E","M","E","N","T">>>> ELSE <<>>

LateInvisibleClause(c, fl) ==
    IF c.Invisible
    THEN IF IsMySQL(fl) THEN <<<<"/","*","!","8","0","0","2","3"," ","I","N","V","I","S","I","B","L","E"," ","*","/">>>>
         ELSE IF MinMariaDB(fl, 11, 7) THEN <<<<"I","N","V","I","S","I","B","L","E">>>>
         ELSE <<>>
    ELSE <<>>

CommentClause(c) ==
    IF c.Comment # <<>>
    THEN <<<<"C","O","M","M","E","N","T"," ","'">> \o EscapeValueForCreateTable(c.Comment) \o <<"'">>>>
    ELSE <<>>

CheckClause(c) ==
    IF c.CheckClause # <<>>
    THEN <<<<"C","H","E","C","K"," ","(">> \o c.CheckClause \o <<")">>>>
    ELSE <<>>

\* The clauses slice of Definition with ON UPDATE appended before DEFAULT.
DefinitionClausesSwapped(c, fl) ==
    NameClause(c) \o TypeClause(c, fl)
    \o CharSetClause(c) \o CollationClause(c)
    \o GenerationClause(c)
    \o NullabilityClause(c)
    \o SRIDClause(c, fl)
    \o EarlyInvisibleClause(c, fl)
    \o PerconaCompressionClause(c, fl)
    \o OnUpdateClause(c)
    \o DefaultClause(c)
    \o AutoIncrementClause(c)
    \o LateInvisibleClause(c, fl)
    \o CommentClause(c)
    \o CheckClause(c)

\* The clauses slice of Definition as it stands before the final Join.
DefinitionClauses(c, fl) ==
    NameClause(c) \o TypeClause(c, fl)
    \o CharSetClause(c) \o CollationClause(c)
    \o GenerationClause(c)
    \o NullabilityClause(c)
    \o SRIDClause(c, fl)
    \o EarlyInvisibleClause(c, fl)
    \o PerconaCompressionClause(c, fl)
    \o DefaultClause(c)
    \o OnUpdateClause(c)
    \o AutoIncrementClause(c)
    \o LateInvisibleClause(c, fl)
    \o CommentClause(c)
    \o CheckClause(c)

Definition(c, fl) == Join(DefinitionClauses(c, fl), <<" ">>)

---------------------------------------------------------------------------
(* Column.Equals and Column.Equivalent.  A *Column is a record with the    *)
(* flag isNil and, when not nil, the struct it points to.                  *)

\* Column.Equals(other)
Equals(c, other) ==
    IF c.isNil /\ other.isNil THEN TRUE
    ELSE IF c.isNil \/ other.isNil THEN FALSE
    ELSE c.val = other.val

\* charsetsEquivalent without the utf8/utf8mb3 alias.
charsetsEquivalentEqualOnly(a, b) == a = b

\* charsetsEquivalent with the alias accepted in one direction only.
charsetsEquivalentOneWay(a, b) ==
    (a = b) \/ (a = <<"u","t","f","8","m","b","3">> /\ b = <<"u","t","f","8">>)

charsetsEquivalent(a, b) ==
    (a = b) \/ (a = <<"u","t","f","8","m","b","3">> /\ b = <<"u","t","f","8">>) \/ (a = <<"u","t","f","8">> /\ b = <<"u","t","f","8","m","b","3">>)

\* collationsEquivalent without the comparison of the parts after the "_".
collationsEquivalentAnyRest(a, b) ==
    IF a = b THEN TRUE
    ELSE LET aCut == Cut(a, "_")
             bCut == Cut(b, "_")
         IN (aCut[1] = <<"u","t","f","8">> /\ bCut[1] = <<"u","t","f","8","m","b","3">>)
            \/ (aCut[1] = <<"u","t","f","8","m","b","3">> /\ bCut[1] = <<"u","t","f","8">>)

collationsEquivalent(a, b) ==
    IF a = b THEN TRUE
    ELSE LET aCut == Cut(a, "_")
             bCut == Cut(b, "_")
             aCharset == aCut[1]
             aRest == aCut[2]
             bCharset == bCut[1]
             bRest == bCut[2]
         IN IF aRest # bRest THEN FALSE
            ELSE (aCharset = <<"u","t","f","8">> /\ bCharset = <<"u","t","f","8","m","b","3">>)
                 \/ (aCharset = <<"u","t","f","8","m","b","3">> /\ bCharset = <<"u","t","f","8">>)

\* selfCopy of Equivalent with the comment taken from other as well.
NormalizedCopyWithComment(c, other) ==
    [c EXCEPT !.Type = other.Type,
              !.ShowCharSet = other.ShowCharSet,
              !.ShowCollation = other.ShowCollation,
              !.Comment = other.Comment,
              !.CharSet = IF charsetsEquivalent(c.CharSet, other.CharSet)
                          THEN other.CharSet ELSE @,
              !.Collation = IF collationsEquivalent(c.Collation, other.Collation)
                            THEN other.Collation ELSE @]

\* selfCopy of Equivalent after its cosmetic fields were set to other's.
NormalizedCopy(c, other) ==
    [c EXCEPT !.Type = other.Type,
              !.ShowCharSet = other.ShowCharSet,
              !.ShowCollation = other.ShowCollation,
              !.CharSet = IF charsetsEquivalent(c.CharSet, other.CharSet)
                          THEN other.CharSet ELSE @,
              !.Collation = IF collationsEquivalent(c.Collation, other.Collation)
                            THEN other.Collation ELSE @]

\* Column.Equivalent(other)
Equivalent(c, other) ==
    IF Equals(c, other) THEN TRUE
    ELSE IF c.isNil \/ other.isNil THEN FALSE
    ELSE IF ~TypeEquivalent(c.val.Type, other.val.Type) THEN FALSE
    ELSE NormalizedCopy(c.val, other.val) = other.val

---------------------------------------------------------------------------
(* The columns, flavors and names the specifications draw their inputs from. *)

TypeOf(base, size) == [Base |-> base, Size |-> size, Unsigned |-> FALSE]

\* A column named id of type int with every other field at its zero value.
BaseColumn ==
    [Name |-> <<"i","d">>, Type |-> TypeOf(<<"i","n","t">>, 0), Nullable |-> FALSE,
     AutoIncrement |-> FALSE, Default |-> <<>>, OnUpdate |-> <<>>,
     GenerationExpr |-> <<>>, Virtual |-> FALSE, CharSet |-> <<>>,
     Collation |-> <<>>, ShowCharSet |-> FALSE, ShowCollation |-> FALSE,
     Compression |-> <<>>, Comment |-> <<>>, Invisible |-> FALSE,
     CheckClause |-> <<>>, SpatialReferenceID |-> 0,
     HasSpatialReference |-> FALSE]

\* A textual column showing its character set and collation.
TextColumn ==
    [BaseColumn EXCEPT !.Name = <<"s">>, !.Type = TypeOf(<<"v","a","r","c","h","a","r">>, 10),
                       !.CharSet = <<"u","t","f","8">>, !.Collation = <<"u","t","f","8","_","g","e","n","e","r","a","l","_","c","i">>,
                       !.ShowCharSet = TRUE, !.ShowCollation = TRUE]

ColumnFields ==
    {"Name", "Type", "Nullable", "AutoIncrement", "Default", "OnUpdate",
     "GenerationExpr", "Virtual", "CharSet", "Collation", "ShowCharSet",
     "ShowCollation", "Compression", "Comment", "Invisible", "CheckClause",
     "SpatialReferenceID", "HasSpatialReference"}

\* The sets of at most k elements of F.
RECURSIVE SubsetsUpTo(_, _)
SubsetsUpTo(F, k) ==
    IF k = 0 THEN {{}}
    ELSE LET prev == SubsetsUpTo(F, k - 1)
         IN prev \cup {S \cup {x} : S \in prev, x \in F}

DefinitionTypes ==
    {TypeOf(<<"t","i","m","e","s","t","a","m","p">>, 0), TypeOf(<<"d","a","t","e","t","i","m","e">>, 0), TypeOf(<<"i","n","t">>, 11)}

\* BaseColumn with the fields of S set to a non-zero value.
ColumnWith(S, ty) ==
    [Name |-> IF "Name" \in S THEN <<"a",Backtick,"b">> ELSE BaseColumn.Name,
     Type |-> IF "Type" \in S THEN ty ELSE BaseColumn.Type,
     Nullable |-> "Nullable" \in S,
     AutoIncrement |-> "AutoIncrement" \in S,
     Default |-> IF "Default" \in S THEN <<"N","U","L","L">> ELSE <<>>,
     OnUpdate |-> IF "OnUpdate" \in S THEN <<"n","o","w","(",")">> ELSE <<>>,
     GenerationExpr |-> IF "GenerationExpr" \in S THEN <<"a","+","1">> ELSE <<>>,
     Virtual |-> "Virtual" \in S,
     CharSet |-> IF "CharSet" \in S THEN <<"u","t","f","8">> ELSE <<>>,
     Collation |-> IF "Collation" \in S THEN <<"u","t","f","8","_","b","i","n">> ELSE <<>>,
     ShowCharSet |-> "ShowCharSet" \in S,
     ShowCollation |-> "ShowCollation" \in S,
     Compression |-> IF "Compression" \in S THEN <<"z","l","i","b">> ELSE <<>>,
     Comment |-> IF "Comment" \in S THEN <<"i","t","'","s">> ELSE <<>>,
     Invisible |-> "Invisible" \in S,
     CheckClause |-> IF "CheckClause" \in S THEN <<"a",">","0">> ELSE <<>>,
     SpatialReferenceID |-> IF "SpatialReferenceID" \in S THEN 4326 ELSE 0,
     HasSpatialReference |-> "HasSpatialReference" \in S]

FlavorOf(vendor, major, minor) == [Vendor |-> vendor, Major |-> major, Minor |-> minor]

Flavors ==
    {FlavorOf("mysql", 5, 7), FlavorOf("mysql", 8, 0), FlavorOf("mysql", 9, 1),
     FlavorOf("percona", 5, 7), FlavorOf("percona", 8, 0),
     FlavorOf("mariadb", 10, 11), FlavorOf("mariadb", 11, 6),
     FlavorOf("mariadb", 11, 7), FlavorOf("mariadb", 12, 0)}

CompareTypes ==
    {TypeOf(<<"i","n","t">>, 0), TypeOf(<<"i","n","t">>, 11), TypeOf(<<"i","n","t">>, 10),
     TypeOf(<<"v","a","r","c","h","a","r">>, 10)}
CompareCharSets == {<<>>, <<"u","t","f","8">>, <<"u","t","f","8","m","b","3">>, <<"l","a","t","i","n","1">>}
CompareCollations ==
    {<<>>, <<"u","t","f","8","_","g","e","n","e","r","a","l","_","c","i">>, <<"u","t","f","8","m","b","3","_","g","e","n","e","r","a","l","_","c","i">>, <<"u","t","f","8","_","b","i","n">>}
CompareComments == {<<>>, <<"c">>, <<"d">>}

CompareFields ==
    {"Type", "CharSet", "Collation", "ShowCharSet", "ShowCollation",
     "Comment", "Nullable"}

\* The columns that differ from base in at most k of the compared fields.
ColumnsNear(base, k) ==
    {c \in {[base EXCEPT !.Type = ty, !.CharSet = cs, !.Collation = co,
                         !.ShowCharSet = scs, !.ShowCollation = sco,
                         !.Comment = cm, !.Nullable = nu] :
              ty \in CompareTypes, cs \in CompareCharSets,
              co \in CompareCollations, scs \in BOOLEAN, sco \in BOOLEAN,
              cm \in CompareComments, nu \in BOOLEAN} :
        Cardinality({f \in CompareFields : c[f] # base[f]}) <= k}

NilColumn == [isNil |-> TRUE, val |-> BaseColumn]
PtrTo(c) == [isNil |-> FALSE, val |-> c]

NamePrefixes == {<<>>, <<"u","t","f","8">>, <<"u","t","f","8","m","b","3">>, <<"u","t","f","8","m","b","4">>, <<"l","a","t","i","n","1">>}
NameSuffixes == {<<>>, <<"_">>, <<"_","b","i","n">>, <<"_","g","e","n","e","r","a","l","_","c","i">>, <<"_","u","n","i","c","o","d","e","_","c","i">>}
EncodingNames == {p \o s : p \in NamePrefixes, s \in NameSuffixes}

---------------------------------------------------------------------------
(* Inputs and idle values of each group of variables.                      *)

DefinitionIdle ==
    /\ col = BaseColumn
    /\ flavor = FlavorOf("mysql", 8, 0)
    /\ clauses = <<>>
    /\ definition = <<>>
    /\ dpc = "idle"

CompareIdle ==
    /\ colA = NilColumn
    /\ colB = NilColumn
    /\ equalsAB = FALSE /\ equalsBA = FALSE
    /\ equivAB = FALSE /\ equivBA = FALSE
    /\ cpc = "idle"

StringsIdle ==
    /\ strA = <<>>
    /\ strB = <<>>
    /\ csEquiv = FALSE
    /\ collEquiv = FALSE
    /\ spc = "idle"

RunSuiteIdle ==
    /\ backends = 0
    /\ methods = <<>>
    /\ bi = 0
    /\ mi = 0
    /\ rpc = "idle"
    /\ calls = <<>>

CleanupIdle ==
    /\ envAction = <<>>
    /\ containerName = <<>>
    /\ dcalls = <<>>
    /\ cleanupRet = "unset"
    /\ kpc = "idle"

---------------------------------------------------------------------------
(* Column.Definition applied to a column and a flavor.                     *)

InitDefinition ==
    /\ \E S \in SubsetsUpTo(ColumnFields, MaxAttrs), ty \in DefinitionTypes :
          col = ColumnWith(S, ty)
    /\ flavor \in Flavors
    /\ clauses = <<>>
    /\ definition = <<>>
    /\ dpc = "start"
    /\ CompareIdle /\ StringsIdle /\ RunSuiteIdle /\ CleanupIdle

CallDefinition ==
    /\ dpc = "start"
    /\ clauses' = DefinitionClauses(col, flavor)
    /\ definition' = Definition(col, flavor)
    /\ dpc' = "done"
    /\ UNCHANGED <<col, flavor, cmpVars, strVars, runVars, clnVars>>

NextDefinition == CallDefinition

SpecDefinition == InitDefinition /\ [][NextDefinition]_vars

---------------------------------------------------------------------------
(* Column.Equals and Column.Equivalent applied to two columns, each way.   *)

InitCompare ==
    /\ \E base \in {BaseColumn, TextColumn} :
          /\ colA \in {PtrTo(c) : c \in ColumnsNear(base, MaxDiff)} \cup {NilColumn}
          /\ colB \in {PtrTo(c) : c \in ColumnsNear(base, MaxDiff)} \cup {NilColumn}
    /\ equalsAB = FALSE /\ equalsBA = FALSE
    /\ equivAB = FALSE /\ equivBA = FALSE
    /\ cpc = "start"
    /\ DefinitionIdle /\ StringsIdle /\ RunSuiteIdle /\ CleanupIdle

CallEquals ==
    /\ cpc = "start"
    /\ equalsAB' = Equals(colA, colB)
    /\ equalsBA' = Equals(colB, colA)
    /\ cpc' = "equals"
    /\ UNCHANGED <<colA, colB, equivAB, equivBA, defVars, strVars, runVars, clnVars>>

CallEquivalent ==
    /\ cpc = "equals"
    /\ equivAB' = Equivalent(colA, colB)
    /\ equivBA' = Equivalent(colB, colA)
    /\ cpc' = "done"
    /\ UNCHANGED <<colA, colB, equalsAB, equalsBA, defVars, strVars, runVars, clnVars>>

NextCompare == CallEquals \/ CallEquivalent

SpecCompare == InitCompare /\ [][NextCompare]_vars

---------------------------------------------------------------------------
(* charsetsEquivalent and collationsEquivalent applied to two names.       *)

InitStrings ==
    /\ strA \in EncodingNames
    /\ strB \in EncodingNames
    /\ csEquiv = FALSE
    /\ collEquiv = FALSE
    /\ spc = "start"
    /\ DefinitionIdle /\ CompareIdle /\ RunSuiteIdle /\ CleanupIdle

CallCharsetsEquivalent ==
    /\ spc = "start"
    /\ csEquiv' = charsetsEquivalent(strA, strB)
    /\ spc' = "charsets"
    /\ UNCHANGED <<strA, strB, collEquiv, defVars, cmpVars, runVars, clnVars>>

CallCollationsEquivalent ==
    /\ spc = "charsets"
    /\ collEquiv' = collationsEquivalent(strA, strB)
    /\ spc' = "done"
    /\ UNCHANGED <<strA, strB, csEquiv, defVars, cmpVars, runVars, clnVars>>

NextStrings == CallCharsetsEquivalent \/ CallCollationsEquivalent

SpecStrings == InitStrings /\ [][NextStrings]_vars

---------------------------------------------------------------------------
(* RunSuite (testing.go).  Backends are identified by their position in    *)
(* the backends slice.  calls is the sequence of calls made to the suite:  *)
(* Setup, BeforeTest, Teardown and the Test methods, each with how it      *)
(* ended.  A hook ends "ok" (nil error), "err" (an error) or "panic".      *)

\* The exported methods of the suite type, in the order reflect lists them.
MethodLists ==
    {<<<<"B","e","f","o","r","e","T","e","s","t">>, <<"S","e","t","u","p">>, <<"T","e","a","r","d","o","w","n">>>>,
     <<<<"B","e","f","o","r","e","T","e","s","t">>, <<"H","e","l","p","e","r">>, <<"S","e","t","u","p">>, <<"T","e","a","r","d","o","w","n">>>>,
     <<<<"B","e","f","o","r","e","T","e","s","t">>, <<"S","e","t","u","p">>, <<"T","e","a","r","d","o","w","n">>, <<"T","e","s","t","A">>>>,
     <<<<"B","e","f","o","r","e","T","e","s","t">>, <<"H","e","l","p","e","r">>, <<"S","e","t","u","p">>, <<"T","e","a","r","d","o","w","n">>, <<"T","e","s","t","A">>>>,
     <<<<"B","e","f","o","r","e","T","e","s","t">>, <<"S","e","t","u","p">>, <<"T","e","a","r","d","o","w","n">>, <<"T","e","s","t","A">>, <<"T","e","s","t","B">>>>,
     <<<<"B","e","f","o","r","e","T","e","s","t">>, <<"H","e","l","p","e","r">>, <<"S","e","t","u","p">>, <<"T","e","a","r","d","o","w","n">>, <<"T","e","s","t","A">>, <<"T","e","s","t","B">>>>}

HookResults == {"ok", "err", "panic"}

Call(op, backend, method, result) ==
    [op |-> op, backend |-> backend, method |-> method, result |-> result]

InitRunSuite ==
    /\ backends \in 0..MaxBackends
    /\ methods \in MethodLists
    /\ bi = 0
    /\ mi = 0
    /\ rpc = "start"
    /\ calls = <<>>
    /\ DefinitionIdle /\ CompareIdle /\ StringsIdle /\ CleanupIdle

\* len(backends) == 0: t.Skipf ends RunSuite; otherwise the loop is entered.
RunSuiteStart ==
    /\ rpc = "start"
    /\ IF backends = 0
       THEN rpc' = "skipped" /\ bi' = bi
       ELSE rpc' = "setup" /\ bi' = 1
    /\ UNCHANGED <<backends, methods, mi, calls>>
    /\ UNCHANGED <<defVars, cmpVars, strVars, clnVars>>

\* suite.Setup(backend); an error ends RunSuite through t.Fatalf.
CallSetup ==
    /\ rpc = "setup"
    /\ \E r \in HookResults :
          /\ calls' = Append(calls, Call("Setup", bi, 0, r))
          /\ rpc' = CASE r = "ok" -> "methods"
                      [] r = "err" -> "fatal"
                      [] OTHER -> "crashed"
    /\ mi' = 1
    /\ UNCHANGED <<backends, methods, bi>>
    /\ UNCHANGED <<defVars, cmpVars, strVars, clnVars>>

\* One iteration of the loop over the methods of the suite type: a method
\* without the Test prefix is passed over; a Test method is handed to t.Run,
\* which either runs the subtest or (filtered out by -run) does not.
MethodLoop ==
    /\ rpc = "methods"
    /\ mi <= Len(methods)
    /\ IF HasPrefix(methods[mi], <<"T","e","s","t">>)
       THEN \/ rpc' = "subtest" /\ mi' = mi
            \/ rpc' = "methods" /\ mi' = mi + 1
       ELSE rpc' = "methods" /\ mi' = mi + 1
    /\ UNCHANGED <<backends, methods, bi, calls>>
    /\ UNCHANGED <<defVars, cmpVars, strVars, clnVars>>

\* The subtest with the failure reported on the subtest instead of the parent
\* test: only the subtest ends and the loop over the methods goes on.
SubtestBeforeTestOwnFatal ==
    /\ rpc = "subtest"
    /\ \E r \in HookResults, td \in HookResults :
          \/ /\ r = "ok"
             /\ calls' = Append(calls, Call("BeforeTest", bi, mi, r))
             /\ rpc' = "test"
             /\ mi' = mi
          \/ /\ r = "err"
             /\ calls' = calls \o <<Call("BeforeTest", bi, mi, r),
                                    Call("Teardown", bi, 0, td)>>
             /\ rpc' = IF td = "panic" THEN "crashed" ELSE "methods"
             /\ mi' = mi + 1
          \/ /\ r = "panic"
             /\ calls' = Append(calls, Call("BeforeTest", bi, mi, r))
             /\ rpc' = "crashed"
             /\ mi' = mi
    /\ UNCHANGED <<backends, methods, bi>>
    /\ UNCHANGED <<defVars, cmpVars, strVars, clnVars>>

\* The subtest up to the test method: suite.BeforeTest(backend); on an error
\* suite.Teardown(backend) is called, its result dropped, and t.Fatalf on the
\* parent test ends the subtest and, through t.Run, RunSuite.
SubtestBeforeTest ==
    /\ rpc = "subtest"
    /\ \E r \in HookResults, td \in HookResults :
          \/ /\ r = "ok"
             /\ calls' = Append(calls, Call("BeforeTest", bi, mi, r))
             /\ rpc' = "test"
          \/ /\ r = "err"
             /\ calls' = calls \o <<Call("BeforeTest", bi, mi, r),
                                    Call("Teardown", bi, 0, td)>>
             /\ rpc' = IF td = "panic" THEN "crashed" ELSE "fatal"
          \/ /\ r = "panic"
             /\ calls' = Append(calls, Call("BeforeTest", bi, mi, r))
             /\ rpc' = "crashed"
    /\ UNCHANGED <<backends, methods, bi, mi>>
    /\ UNCHANGED <<defVars, cmpVars, strVars, clnVars>>

\* method.Func.Call: the test passes, fails (or ends itself through its own
\* subt), or panics; a panic is recovered by the deferred function when the
\* output pipe was set up, and ends the test binary when os.Pipe had failed.
SubtestMethod ==
    /\ rpc = "test"
    /\ \E r \in {"pass", "fail", "panic"}, pipeOK \in BOOLEAN :
          /\ calls' = Append(calls, Call("Test", bi, mi, r))
          /\ IF r = "panic" /\ ~pipeOK
             THEN rpc' = "crashed" /\ mi' = mi
             ELSE rpc' = "methods" /\ mi' = mi + 1
    /\ UNCHANGED <<backends, methods, bi>>
    /\ UNCHANGED <<defVars, cmpVars, strVars, clnVars>>

\* After the last method: suite.Teardown(backend); an error ends RunSuite
\* through t.Fatalf, otherwise the next backend follows.
CallTeardown ==
    /\ rpc = "methods"
    /\ mi > Len(methods)
    /\ \E r \in HookResults :
          /\ calls' = Append(calls, Call("Teardown", bi, 0, r))
          /\ IF r = "ok"
             THEN IF bi < backends
                  THEN rpc' = "setup" /\ bi' = bi + 1
                  ELSE rpc' = "done" /\ bi' = bi
             ELSE rpc' = (IF r = "err" THEN "fatal" ELSE "crashed") /\ bi' = bi
    /\ UNCHANGED <<backends, methods, mi>>
    /\ UNCHANGED <<defVars, cmpVars, strVars, clnVars>>

NextRunSuite ==
    \/ RunSuiteStart
    \/ CallSetup
    \/ MethodLoop
    \/ SubtestBeforeTest
    \/ SubtestMethod
    \/ CallTeardown

SpecRunSuite == InitRunSuite /\ [][NextRunSuite]_vars

---------------------------------------------------------------------------
(* SkeemaTestContainerCleanup (testing.go).  envAction is the value of     *)
(* SKEEMA_TEST_CLEANUP (empty when unset), dcalls the calls made on the    *)
(* container, cleanupRet what the function returned.                       *)

RECURSIVE Pads(_)
Pads(n) ==
    IF n = 0 THEN {<<>>}
    ELSE Pads(n - 1) \cup {p \o <<ch>> : p \in Pads(n - 1), ch \in {" ", "\t"}}

EnvWords ==
    {<<>>, <<"n","o","n","e">>, <<"N","O","N","E">>, <<"N","o","n","e">>, <<"s","t","o","p">>, <<"S","T","O","P">>, <<"s","T","o","p">>,
     <<"d","e","s","t","r","o","y">>, <<"n","o","n","e","e">>, <<"n","o"," ","n","e">>, <<"s","t","o","p","p">>, <<"t","o","p">>}

EnvValues == {l \o w \o r : l \in Pads(MaxPad), w \in EnvWords, r \in Pads(MaxPad)}

ContainerNames ==
    {<<"s","k","e","e","m","a","-","t","e","s","t","-","m","y","s","q","l","-","8",".","0">>, <<"s","k","e","e","m","a","-","t","e","s","t","-">>, <<"s","k","e","e","m","a","-","t","e","s","t">>,
     <<"s","k","e","e","m","a","_","t","e","s","t","-","m","y","s","q","l">>, <<"S","k","e","e","m","a","-","T","e","s","t","-","m","y","s","q","l">>, <<"p","r","o","d","-","s","k","e","e","m","a","-","t","e","s","t","-">>,
     <<"p","r","o","d","-","d","b">>, <<>>}

InitCleanup ==
    /\ envAction \in EnvValues
    /\ containerName \in ContainerNames
    /\ dcalls = <<>>
    /\ cleanupRet = "unset"
    /\ kpc = "start"
    /\ DefinitionIdle /\ CompareIdle /\ StringsIdle /\ RunSuiteIdle

\* What d.Stop() or d.Destroy() returns.
ContainerResults == {"nil", "error"}

\* The branch taken with HasPrefix given its arguments the other way round.
CleanupBranchPrefixSwapped(env, name) ==
    LET action == TrimSpace(env) IN
    IF EqualFold(action, <<"n","o","n","e">>) THEN "none"
    ELSE IF EqualFold(action, <<"s","t","o","p">>) THEN "stop"
    ELSE IF HasPrefix(<<"s","k","e","e","m","a","-","t","e","s","t","-">>, name) THEN "destroy"
    ELSE "refuse"

\* The branch of the if/else chain taken for an environment value and a name.
CleanupBranch(env, name) ==
    LET action == TrimSpace(env) IN
    IF EqualFold(action, <<"n","o","n","e">>) THEN "none"
    ELSE IF EqualFold(action, <<"s","t","o","p">>) THEN "stop"
    ELSE IF HasPrefix(name, <<"s","k","e","e","m","a","-","t","e","s","t","-">>) THEN "destroy"
    ELSE "refuse"

SkeemaTestContainerCleanup ==
    /\ kpc = "start"
    /\ LET branch == CleanupBranch(envAction, containerName) IN
       CASE branch = "none" -> dcalls' = dcalls /\ cleanupRet' = "nil"
         [] branch = "stop" ->
               \E r \in ContainerResults :
                  dcalls' = Append(dcalls, "Stop") /\ cleanupRet' = r
         [] branch = "destroy" ->
               \E r \in ContainerResults :
                  dcalls' = Append(dcalls, "Destroy") /\ cleanupRet' = r
         [] OTHER -> dcalls' = dcalls /\ cleanupRet' = "refused"
    /\ kpc' = "done"
    /\ UNCHANGED <<envAction, containerName>>
    /\ UNCHANGED <<defVars, cmpVars, strVars, runVars>>

NextCleanup == SkeemaTestContainerCleanup

SpecCleanup == InitCleanup /\ [][NextCleanup]_vars

---------------------------------------------------------------------------
(* All of the above as one system.                                         *)

Init ==
    \/ InitDefinition
    \/ InitCompare
    \/ InitStrings
    \/ InitRunSuite
    \/ InitCleanup

Next ==
    \/ NextDefinition
    \/ NextCompare
    \/ NextStrings
    \/ NextRunSuite
    \/ NextCleanup

Spec == Init /\ [][Next]_vars

---------------------------------------------------------------------------
(* Properties of Column.Definition.                                        *)

IsCharSetClause(cl) == HasPrefix(cl, <<"C","H","A","R","A","C","T","E","R"," ","S","E","T"," ">>)
IsCollateClause(cl) == HasPrefix(cl, <<"C","O","L","L","A","T","E"," ">>)
IsGeneratedClause(cl) == HasPrefix(cl, <<"G","E","N","E","R","A","T","E","D"," ","A","L","W","A","Y","S"," ","A","S"," ","(">>)
IsNotNullClause(cl) == cl = <<"N","O","T"," ","N","U","L","L">>
IsBareNullClause(cl) == cl = <<"N","U","L","L">>
IsSRIDClause(cl) == HasPrefix(cl, <<"/","*","!","8","0","0","0","3"," ","S","R","I","D"," ">>)
IsBareInvisibleClause(cl) == cl = <<"I","N","V","I","S","I","B","L","E">>
IsCommentedInvisibleClause(cl) == cl = <<"/","*","!","8","0","0","2","3"," ","I","N","V","I","S","I","B","L","E"," ","*","/">>
IsInvisibleClause(cl) == IsBareInvisibleClause(cl) \/ IsCommentedInvisibleClause(cl)
IsColumnFormatClause(cl) ==
    \E k \in 1..Len(cl) : HasPrefix(SubSeq(cl, k, Len(cl)), <<"C","O","L","U","M","N","_","F","O","R","M","A","T"," ">>)
IsDefaultClause(cl) == HasPrefix(cl, <<"D","E","F","A","U","L","T"," ">>)
IsOnUpdateClause(cl) == HasPrefix(cl, <<"O","N"," ","U","P","D","A","T","E"," ">>)
IsAutoIncrementClause(cl) == cl = <<"A","U","T","O","_","I","N","C","R","E","M","E","N","T">>
IsCommentClause(cl) == HasPrefix(cl, <<"C","O","M","M","E","N","T"," ","'">>)
IsCheckClause(cl) == HasPrefix(cl, <<"C","H","E","C","K"," ","(">>)

\* The place of a clause in the documented order; a bare INVISIBLE is given
\* the place inv (the early or the late one); 0 for no known clause.
ClausePlace(cl, inv) ==
    CASE IsCharSetClause(cl) -> 3
      [] IsCollateClause(cl) -> 4
      [] IsGeneratedClause(cl) -> 5
      [] IsNotNullClause(cl) \/ IsBareNullClause(cl) -> 6
      [] IsSRIDClause(cl) -> 7
      [] IsBareInvisibleClause(cl) -> inv
      [] IsColumnFormatClause(cl) -> 9
      [] IsDefaultClause(cl) -> 10
      [] IsOnUpdateClause(cl) -> 11
      [] IsAutoIncrementClause(cl) -> 12
      [] IsCommentedInvisibleClause(cl) -> 13
      [] IsCommentClause(cl) -> 14
      [] IsCheckClause(cl) -> 15
      [] OTHER -> 0

\* Where clause i starts in a text that joins cls with one separator each.
RECURSIVE OffsetOf(_, _)
OffsetOf(cls, i) ==
    IF i = 1 THEN 1 ELSE OffsetOf(cls, i - 1) + Len(cls[i - 1]) + 1

JoinedBySingleSpaces(text, cls) ==
    /\ \A i \in 1..Len(cls) :
          /\ cls[i] # <<>>
          /\ SubSeq(text, OffsetOf(cls, i), OffsetOf(cls, i) + Len(cls[i]) - 1) = cls[i]
          /\ i > 1 => text[OffsetOf(cls, i) - 1] = " "
    /\ Len(cls) > 0
    /\ Len(text) = OffsetOf(cls, Len(cls)) + Len(cls[Len(cls)]) - 1

Some(cls, P(_)) == \E i \in 1..Len(cls) : P(cls[i])
CountOf(cls, P(_)) == Cardinality({i \in 1..Len(cls) : P(cls[i])})

IdColumn == [BaseColumn EXCEPT !.AutoIncrement = TRUE]

\* C1: the definition is the emitted clauses joined by exactly one space,
\* the escaped name first, the type text second, every further clause a
\* known one, in the documented order (name, type, CHARACTER SET, COLLATE,
\* GENERATED, nullability, SRID, early INVISIBLE, COLUMN_FORMAT, DEFAULT,
\* ON UPDATE, AUTO_INCREMENT, late invisibility, COMMENT, CHECK), no clause
\* empty or repeated, a clause present only when its attribute is set; and
\* the non-nullable auto-increment int column id renders as
\* `id` int NOT NULL AUTO_INCREMENT on every flavor.
C1_DefinitionOrder ==
    dpc = "done" =>
       /\ JoinedBySingleSpaces(definition, clauses)
       /\ Len(clauses) >= 2
       /\ clauses[1] = EscapeIdentifier(col.Name)
       /\ HasPrefix(clauses[2], TypeString(col.Type))
       /\ (col.Compression # <<>> /\ IsMariaDB(flavor)) <=> clauses[2] # TypeString(col.Type)
       /\ \E inv \in {8, 13} :
             /\ \A i \in 3..Len(clauses) : ClausePlace(clauses[i], inv) >= 3
             /\ \A i \in 3..(Len(clauses) - 1) :
                   ClausePlace(clauses[i], inv) < ClausePlace(clauses[i + 1], inv)
       /\ Some(clauses, IsCharSetClause) <=> (col.CharSet # <<>> /\ col.ShowCharSet)
       /\ Some(clauses, IsCollateClause) <=> (col.Collation # <<>> /\ col.ShowCollation)
       /\ Some(clauses, IsGeneratedClause) <=> col.GenerationExpr # <<>>
       /\ Some(clauses, IsColumnFormatClause) <=> (col.Compression # <<>> /\ IsPercona(flavor))
       /\ Some(clauses, IsDefaultClause) <=> col.Default # <<>>
       /\ Some(clauses, IsOnUpdateClause) <=> col.OnUpdate # <<>>
       /\ Some(clauses, IsAutoIncrementClause) <=> col.AutoIncrement
       /\ Some(clauses, IsCommentClause) <=> col.Comment # <<>>
       /\ Some(clauses, IsCheckClause) <=> col.CheckClause # <<>>
       /\ col = IdColumn => definition = <<Backtick,"i","d",Backtick," ","i","n","t"," ","N","O","T"," ","N","U","L","L"," ","A","U","T","O","_","I","N","C","R","E","M","E","N","T">>

\* A rendered column with DEFAULT, ON UPDATE, AUTO_INCREMENT and a COMMENT.
C1_Witness ==
    /\ dpc = "done"
    /\ col.Default # <<>> /\ col.OnUpdate # <<>> /\ col.Comment # <<>>
    /\ col.AutoIncrement
    /\ Len(clauses) = 7

\* C6: a non-nullable column renders NOT NULL and no bare NULL; a nullable
\* timestamp column renders a bare NULL and no NOT NULL; any other nullable
\* column renders neither; the token comes after a GENERATED clause and
\* before SRID, DEFAULT and every later clause.
C6_Nullability ==
    dpc = "done" =>
       /\ ~col.Nullable =>
             CountOf(clauses, IsNotNullClause) = 1 /\ CountOf(clauses, IsBareNullClause) = 0
       /\ (col.Nullable /\ col.Type.Base = <<"t","i","m","e","s","t","a","m","p">>) =>
             CountOf(clauses, IsNotNullClause) = 0 /\ CountOf(clauses, IsBareNullClause) = 1
       /\ (col.Nullable /\ col.Type.Base # <<"t","i","m","e","s","t","a","m","p">>) =>
             CountOf(clauses, IsNotNullClause) = 0 /\ CountOf(clauses, IsBareNullClause) = 0
       /\ \A i \in 1..Len(clauses) :
             (IsNotNullClause(clauses[i]) \/ IsBareNullClause(clauses[i])) =>
                /\ i > 2
                /\ \A j \in 1..Len(clauses) :
                      /\ IsGeneratedClause(clauses[j]) => j < i
                      /\ (\/ IsSRIDClause(clauses[j])
                          \/ IsInvisibleClause(clauses[j])
                          \/ IsColumnFormatClause(clauses[j])
                          \/ IsDefaultClause(clauses[j])
                          \/ IsOnUpdateClause(clauses[j])
                          \/ IsAutoIncrementClause(clauses[j])
                          \/ IsCommentClause(clauses[j])
                          \/ IsCheckClause(clauses[j])) => j > i

\* A nullable timestamp column with DEFAULT NULL and a generation expression.
C6_Witness ==
    /\ dpc = "done"
    /\ col.Nullable /\ col.Type.Base = <<"t","i","m","e","s","t","a","m","p">>
    /\ col.Default = <<"N","U","L","L">> /\ col.GenerationExpr # <<>>
    /\ Some(clauses, IsBareNullClause)

\* C7: without the presence flag no SRID clause is rendered, whatever the
\* SRID value and the flavor; with the flag and SRID 0 on MySQL 8 or later
\* the clause is rendered and carries SRID 0; with the flag on MariaDB or on
\* MySQL before 8 no SRID clause is rendered.
C7_SRIDPresenceFlag ==
    dpc = "done" =>
       /\ ~col.HasSpatialReference => ~Some(clauses, IsSRIDClause)
       /\ (/\ col.HasSpatialReference /\ col.SpatialReferenceID = 0
           /\ flavor.Vendor = "mysql" /\ flavor.Major >= 8) =>
             /\ CountOf(clauses, IsSRIDClause) = 1
             /\ \E i \in 1..Len(clauses) : clauses[i] = <<"/","*","!","8","0","0","0","3"," ","S","R","I","D"," ","0"," ","*","/">>
       /\ (/\ col.HasSpatialReference
           /\ \/ flavor.Vendor = "mariadb"
              \/ flavor.Vendor = "mysql" /\ flavor.Major < 8) =>
             ~Some(clauses, IsSRIDClause)

\* A non-zero SRID without the presence flag, rendered for MySQL 8 or later.
C7_Witness ==
    /\ dpc = "done"
    /\ ~col.HasSpatialReference /\ col.SpatialReferenceID # 0
    /\ flavor.Vendor = "mysql" /\ flavor.Major >= 8

EarlyPlaced(cls, i) ==
    \A j \in 1..Len(cls) :
       (IsDefaultClause(cls[j]) \/ IsOnUpdateClause(cls[j]) \/ IsAutoIncrementClause(cls[j])
        \/ IsCommentClause(cls[j]) \/ IsCheckClause(cls[j])) => j > i

LatePlaced(cls, i) ==
    \A j \in 1..Len(cls) :
       /\ (IsDefaultClause(cls[j]) \/ IsOnUpdateClause(cls[j]) \/ IsAutoIncrementClause(cls[j]))
             => j < i
       /\ (IsCommentClause(cls[j]) \/ IsCheckClause(cls[j])) => j > i

VersionBelow(fl, major, minor) ==
    fl.Major < major \/ (fl.Major = major /\ fl.Minor < minor)

\* C8: the definition holds at most one invisibility clause.  An invisible
\* column gets a bare INVISIBLE before DEFAULT on MariaDB below 11.7, only
\* /*!80023 INVISIBLE */ after AUTO_INCREMENT on MySQL, only a bare INVISIBLE
\* after AUTO_INCREMENT on MariaDB 11.7 or later; a visible column gets none.
C8_InvisibilityPlacement ==
    dpc = "done" =>
       /\ CountOf(clauses, IsInvisibleClause) <= 1
       /\ ~col.Invisible => CountOf(clauses, IsInvisibleClause) = 0
       /\ (col.Invisible /\ flavor.Vendor = "mariadb" /\ VersionBelow(flavor, 11, 7)) =>
             \E i \in 1..Len(clauses) :
                IsBareInvisibleClause(clauses[i]) /\ EarlyPlaced(clauses, i)
       /\ (col.Invisible /\ flavor.Vendor = "mysql") =>
             \E i \in 1..Len(clauses) :
                IsCommentedInvisibleClause(clauses[i]) /\ LatePlaced(clauses, i)
       /\ (col.Invisible /\ flavor.Vendor = "mariadb" /\ ~VersionBelow(flavor, 11, 7)) =>
             \E i \in 1..Len(clauses) :
                IsBareInvisibleClause(clauses[i]) /\ LatePlaced(clauses, i)

\* An invisible column with DEFAULT and AUTO_INCREMENT on MariaDB 11.7 or later.
C8_Witness ==
    /\ dpc = "done"
    /\ col.Invisible /\ col.Default # <<>> /\ col.AutoIncrement /\ col.Comment # <<>>
    /\ flavor.Vendor = "mariadb" /\ ~VersionBelow(flavor, 11, 7)
    /\ Some(clauses, IsBareInvisibleClause)

---------------------------------------------------------------------------
(* Properties of Column.Equals and Column.Equivalent.                      *)

BothPresent == ~colA.isNil /\ ~colB.isNil

AliasPair(x, y) == {x, y} = {<<"u","t","f","8">>, <<"u","t","f","8","m","b","3">>}

\* C2: Equivalent is reflexive and symmetric, nil columns included:
\* a.Equivalent(a) is true and a.Equivalent(b) = b.Equivalent(a).
C2_EquivalentSymmetric ==
    cpc = "done" =>
       /\ equivAB = equivBA
       /\ colA = colB => (equivAB /\ equivBA)

\* Two different columns found equivalent after the receiver's copy took the
\* type, both flags, the charset and the collation of the argument.
C2_Witness ==
    /\ cpc = "done"
    /\ BothPresent
    /\ colA.val.CharSet # colB.val.CharSet
    /\ colA.val.Collation # colB.val.Collation
    /\ ~equalsAB
    /\ equivAB /\ equivBA

\* C3: two present columns whose comments differ are neither Equals nor
\* Equivalent, whatever their other fields are.
C3_CommentsNotCosmetic ==
    (cpc = "done" /\ BothPresent /\ colA.val.Comment # colB.val.Comment) =>
       /\ ~equalsAB /\ ~equalsBA
       /\ ~equivAB /\ ~equivBA

\* Comments differ while everything else differs only in the normalized
\* fields: with the comments made the same the two would be Equivalent.
C3_Witness ==
    /\ cpc = "done"
    /\ BothPresent
    /\ colA.val.Comment # colB.val.Comment
    /\ colA.val.CharSet # colB.val.CharSet
    /\ colA.val.ShowCollation # colB.val.ShowCollation
    /\ Equivalent(PtrTo([colA.val EXCEPT !.Comment = colB.val.Comment]), colB)

\* C4: two columns identical except for CharSet utf8 against utf8mb3, both
\* with ShowCharSet, are Equivalent both ways and not Equals; two columns
\* whose charsets are neither equal nor that alias pair are not Equivalent.
C4_CharsetAlias ==
    (cpc = "done" /\ BothPresent) =>
       /\ (/\ colA.val.CharSet = <<"u","t","f","8">>
           /\ colB.val.CharSet = <<"u","t","f","8","m","b","3">>
           /\ colA.val.ShowCharSet /\ colB.val.ShowCharSet
           /\ [colA.val EXCEPT !.CharSet = colB.val.CharSet] = colB.val) =>
             equivAB /\ equivBA /\ ~equalsAB /\ ~equalsBA
       /\ (/\ colA.val.CharSet # colB.val.CharSet
           /\ ~AliasPair(colA.val.CharSet, colB.val.CharSet)) =>
             ~equivAB /\ ~equivBA

\* The utf8 column compared with its utf8mb3 twin.
C4_Witness ==
    /\ cpc = "done"
    /\ BothPresent
    /\ colA.val.CharSet = <<"u","t","f","8">>
    /\ colB.val.CharSet = <<"u","t","f","8","m","b","3">>
    /\ colA.val.ShowCharSet /\ colB.val.ShowCharSet
    /\ [colA.val EXCEPT !.CharSet = colB.val.CharSet] = colB.val
    /\ equivAB

---------------------------------------------------------------------------
(* Properties of collationsEquivalent.                                     *)

\* The position of the first "_" of s, Len(s) + 1 when it has none.
FirstUnderscore(s) ==
    IF \E i \in 1..Len(s) : s[i] = "_"
    THEN CHOOSE i \in 1..Len(s) : s[i] = "_" /\ \A j \in 1..(i - 1) : s[j] # "_"
    ELSE Len(s) + 1

NamePrefix(s) == SubSeq(s, 1, FirstUnderscore(s) - 1)
NameSuffix(s) == SubSeq(s, FirstUnderscore(s) + 1, Len(s))

\* C5: collationsEquivalent(a, b) is true exactly when a = b, or the parts
\* after the first "_" are equal and the parts before it are utf8 and
\* utf8mb3 in either order, a name without "_" having an empty suffix;
\* utf8_general_ci is equivalent to utf8mb3_general_ci and not to utf8_bin.
C5_CollationsEquivalent ==
    spc = "done" =>
       /\ collEquiv <=>
             \/ strA = strB
             \/ /\ NameSuffix(strA) = NameSuffix(strB)
                /\ AliasPair(NamePrefix(strA), NamePrefix(strB))
       /\ (strA = <<"u","t","f","8","_","g","e","n","e","r","a","l","_","c","i">> /\ strB = <<"u","t","f","8","m","b","3","_","g","e","n","e","r","a","l","_","c","i">>) => collEquiv
       /\ (strA = <<"u","t","f","8","_","g","e","n","e","r","a","l","_","c","i">> /\ strB = <<"u","t","f","8","_","b","i","n">>) => ~collEquiv
       /\ (/\ strA # strB
           /\ ~AliasPair(NamePrefix(strA), NamePrefix(strB))) => ~collEquiv

\* utf8_general_ci compared with utf8mb3_general_ci.
C5_Witness ==
    /\ spc = "done"
    /\ strA = <<"u","t","f","8","_","g","e","n","e","r","a","l","_","c","i">>
    /\ strB = <<"u","t","f","8","m","b","3","_","g","e","n","e","r","a","l","_","c","i">>
    /\ collEquiv

---------------------------------------------------------------------------
(* Properties of RunSuite.                                                 *)

CallsOf(b) == {i \in 1..Len(calls) : calls[i].backend = b}
CallsOfOp(b, op) == {i \in CallsOf(b) : calls[i].op = op}

\* C9: with a non-empty backend list the calls of each backend follow
\* Setup, then BeforeTest and the test method for each Test method, then
\* Teardown: Setup is called once and first; a test method runs right after
\* its own BeforeTest returned no error; Teardown is called at most once and
\* nothing of the backend runs after it; after a failed Setup nothing runs
\* at all, for this backend or a later one.
C9_SuiteLifecycle ==
    backends > 0 =>
       /\ \A b \in 1..backends :
             /\ Cardinality(CallsOfOp(b, "Setup")) <= 1
             /\ CallsOf(b) # {} =>
                   /\ Cardinality(CallsOfOp(b, "Setup")) = 1
                   /\ \A i \in CallsOf(b) :
                         calls[i].op # "Setup" =>
                            \E j \in 1..(i - 1) : calls[j] = Call("Setup", b, 0, "ok")
             /\ Cardinality(CallsOfOp(b, "Teardown")) <= 1
             /\ \A i \in CallsOfOp(b, "Teardown") :
                   \A j \in CallsOf(b) : j <= i
             /\ (rpc = "done" \/ b < bi) =>
                   /\ Cardinality(CallsOfOp(b, "Setup")) = 1
                   /\ Cardinality(CallsOfOp(b, "Teardown")) = 1
             /\ \A i \in CallsOfOp(b, "BeforeTest"), j \in CallsOfOp(b, "BeforeTest") :
                   i < j => calls[i].method < calls[j].method
       /\ \A i \in 1..Len(calls) :
             /\ calls[i].backend \in 1..backends
             /\ calls[i].op = "Test" =>
                   /\ i > 1
                   /\ calls[i - 1] = Call("BeforeTest", calls[i].backend, calls[i].method, "ok")
             /\ calls[i].op = "BeforeTest" =>
                   /\ HasPrefix(methods[calls[i].method], <<"T","e","s","t">>)
                   /\ (calls[i].result = "ok" /\ i < Len(calls)) =>
                         calls[i + 1].op = "Test"
             /\ (calls[i].op = "Setup" /\ calls[i].result # "ok") => i = Len(calls)
             /\ (i < Len(calls) /\ calls[i + 1].backend # calls[i].backend) =>
                   /\ calls[i] = Call("Teardown", calls[i].backend, 0, "ok")
                   /\ calls[i + 1].op = "Setup"
                   /\ calls[i + 1].backend = calls[i].backend + 1

\* On the second backend BeforeTest failed for the second test method, after
\* the first one had run: Teardown was called and RunSuite ended.
C9_Witness ==
    /\ rpc = "fatal"
    /\ bi = 2
    /\ \E i \in 1..Len(calls) :
          /\ calls[i].op = "BeforeTest" /\ calls[i].result = "err" /\ calls[i].backend = 2
          /\ \E j \in 1..(i - 1) : calls[j].op = "Test" /\ calls[j].backend = 2
    /\ calls[Len(calls)].op = "Teardown"

---------------------------------------------------------------------------
(* Properties of SkeemaTestContainerCleanup.                               *)

SameLetter(x, y) ==
    x = y \/ \E k \in 1..Len(Upper) : {x, y} = {Upper[k], Lower[k]}

\* env is the word w in any letter case, with white space around it.
EnvIsWord(env, w) ==
    \E l \in 0..Len(env), r \in 0..Len(env) :
       /\ l + Len(w) + r = Len(env)
       /\ \A i \in 1..l : env[i] \in {" ", "\t", "\n"}
       /\ \A i \in (Len(env) - r + 1)..Len(env) : env[i] \in {" ", "\t", "\n"}
       /\ \A i \in 1..Len(w) : SameLetter(env[l + i], w[i])

NameHasTestPrefix(name) ==
    \E rest \in 0..Len(name) :
       name = <<"s","k","e","e","m","a","-","t","e","s","t","-">> \o SubSeq(name, Len(name) - rest + 1, Len(name))

\* C10: Destroy is called only when the trimmed SKEEMA_TEST_CLEANUP is
\* neither none nor stop (in any letter case) and the container name begins
\* with skeema-test-; none does nothing and returns nil; stop calls only
\* Stop, whatever the name; any other value with a name lacking the prefix
\* returns an error and calls neither Stop nor Destroy.
C10_CleanupNeverDestroysForeign ==
    kpc = "done" =>
       /\ (\E i \in 1..Len(dcalls) : dcalls[i] = "Destroy") =>
             /\ ~EnvIsWord(envAction, <<"n","o","n","e">>)
             /\ ~EnvIsWord(envAction, <<"s","t","o","p">>)
             /\ NameHasTestPrefix(containerName)
       /\ EnvIsWord(envAction, <<"n","o","n","e">>) => (dcalls = <<>> /\ cleanupRet = "nil")
       /\ EnvIsWord(envAction, <<"s","t","o","p">>) => dcalls = <<"Stop">>
       /\ (/\ ~EnvIsWord(envAction, <<"n","o","n","e">>)
           /\ ~EnvIsWord(envAction, <<"s","t","o","p">>)
           /\ ~NameHasTestPrefix(containerName)) =>
             (dcalls = <<>> /\ cleanupRet = "refused")

\* Cleanup with the variable unset refused a name that is a proper prefix of
\* skeema-test-.
C10_Witness ==
    /\ kpc = "done"
    /\ envAction = <<>>
    /\ containerName = <<"s","k","e","e","m","a","-","t","e","s","t">>
    /\ cleanupRet = "refused"

=============================================================================
